---- MODULE Spec2Model ----
(***************************************************************************)
(* The client metrics screen (src/app/client-metrics.tsx) together with    *)
(* the metric store it calls (getMetrics / addMetricEntry of               *)
(* '@/utils/metricsStorage', whose code is not part of src/ and is         *)
(* modelled from spec.md, sections 4.2, 5 and 7).                          *)
(*                                                                         *)
(* Numbers.  A finite JavaScript number is an integer counting units of    *)
(* 10^-FracDigits (70.5 is 7050 when FracDigits = 2).  A number as         *)
(* parseFloat returns it is a record [kind, v] with kind one of "finite",  *)
(* "NaN", "Infinity", "-Infinity".  Doubles are taken as exact decimals.   *)
(* Optional values are sequences of length 0 or 1, a MetricData object is  *)
(* a function whose DOMAIN is the set of keys it holds.                    *)
(***************************************************************************)
EXTENDS Integers, Sequences, FiniteSets, TLC

VARIABLES
    persisted,       \* store: the persisted MetricData document
    resident,        \* store: <<doc>> when the snapshot is in memory, else <<>>
    inflight,        \* store: addMetricEntry calls whose write is outstanding
    reading,         \* TRUE while the mount effect's getMetrics reads storage
    metrics,         \* useState: the displayed snapshot           (line 60)
    selectedMetric,  \* useState: a key or Null                    (line 61)
    showAddModal,    \* useState                                   (line 62)
    newValue,        \* useState: the text of the input field      (line 63)
    loading,         \* useState                                   (line 64)
    alert,           \* the last Alert.alert shown: <<title, message>> or <<>>
    now,             \* the clock the store stamps entries with
    history,         \* history: per key, the entries appended so far, newest first
    initial,         \* history: the persisted document at start
    event            \* history: the store call made or ended by the last step

vars == <<persisted, resident, inflight, reading, metrics, selectedMetric,
          showAddModal, newValue, loading, alert, now, history, initial, event>>

storeVars == <<persisted, resident, inflight, now, history>>
screenVars == <<reading, metrics, selectedMetric, showAddModal, newValue, loading,
                alert>>

----------------------------------------------------------------------------
\* Bounds of the model.

FracDigits == 2        \* fractional decimal digits a number keeps
MaxClock == 2          \* addMetricEntry calls accepted in one behaviour of Spec
MaxInFlight == 2       \* calls whose write may be outstanding at once
TicksPerDay == 2       \* clock readings that share one calendar date
MaxDetailEntries == 11 \* longest entry list of SpecDetail

RECURSIVE Pow10(_)
Pow10(n) == IF n = 0 THEN 1 ELSE 10 * Pow10(n - 1)

Scale == Pow10(FracDigits)

Null == "null"

----------------------------------------------------------------------------
\* The Metric Catalog.  The model keeps two of the ten keys.

metricConfigs ==
    << [key |-> "weight", name |-> "Weight", unit |-> "kg"],
       [key |-> "steps", name |-> "Steps", unit |-> "steps"] >>

Keys == {metricConfigs[i].key : i \in 1..Len(metricConfigs)}

configOf(key) == metricConfigs[CHOOSE i \in 1..Len(metricConfigs) : metricConfigs[i].key = key]

\* A key the catalog does not hold, for calls made to the store directly.
UnknownKey == "height"

----------------------------------------------------------------------------
\* Text and JavaScript's String.prototype.trim and parseFloat.
\* A text is a sequence of one-character strings.

DigitChars == <<"0", "1", "2", "3", "4", "5", "6", "7", "8", "9">>
Digits == {DigitChars[i] : i \in 1..10}
DigitVal(c) == (CHOOSE i \in 1..10 : DigitChars[i] = c) - 1
IsSpace(c) == c = " "

RECURSIVE TrimStart(_)
TrimStart(t) == IF t # <<>> /\ IsSpace(Head(t)) THEN TrimStart(Tail(t)) ELSE t

RECURSIVE TrimEnd(_)
TrimEnd(t) ==
    IF t # <<>> /\ IsSpace(t[Len(t)]) THEN TrimEnd(SubSeq(t, 1, Len(t) - 1)) ELSE t

trim(t) == TrimEnd(TrimStart(t))

\* The number of leading decimal digits of t.
RECURSIVE DigitRun(_)
DigitRun(t) == IF t # <<>> /\ Head(t) \in Digits THEN 1 + DigitRun(Tail(t)) ELSE 0

\* The value of a sequence of digits as an integer.
RECURSIVE DigitsValue(_)
DigitsValue(t) ==
    IF t = <<>> THEN 0 ELSE 10 * DigitsValue(SubSeq(t, 1, Len(t) - 1)) + DigitVal(t[Len(t)])

\* The first FracDigits digits of a fraction, as units of 10^-FracDigits.
FracValue(t) ==
    LET kept == SubSeq(t, 1, IF Len(t) < FracDigits THEN Len(t) ELSE FracDigits)
    IN  DigitsValue(kept) * Pow10(FracDigits - Len(kept))

InfinityText == <<"I", "n", "f", "i", "n", "i", "t", "y">>
StartsWith(t, p) == Len(t) >= Len(p) /\ SubSeq(t, 1, Len(p)) = p

NaN == [kind |-> "NaN", v |-> 0]
Finite(v) == [kind |-> "finite", v |-> v]

\* parseFloat(text): leading white space is skipped, then the longest prefix that
\* is a StrDecimalLiteral is converted; the rest of the text is ignored.  The
\* result carries `used`, the number of characters after the leading white space
\* that the literal takes (0 for NaN).  Exponent parts are not modelled: no text
\* of the model holds "e" or "E".
parseFloatFull(text) ==
    LET s == TrimStart(text)
        signed == s # <<>> /\ Head(s) \in {"+", "-"}
        neg == signed /\ Head(s) = "-"
        body == IF signed THEN Tail(s) ELSE s
        sl == IF signed THEN 1 ELSE 0
        ni == DigitRun(body)
        afterInt == SubSeq(body, ni + 1, Len(body))
        dot == afterInt # <<>> /\ Head(afterInt) = "."
        nf == IF dot THEN DigitRun(Tail(afterInt)) ELSE 0
        intDigits == SubSeq(body, 1, ni)
        fracDigits == IF dot THEN SubSeq(Tail(afterInt), 1, nf) ELSE <<>>
        mag == DigitsValue(intDigits) * Scale + FracValue(fracDigits)
    IN  IF StartsWith(body, InfinityText)
          THEN [kind |-> IF neg THEN "-Infinity" ELSE "Infinity", v |-> 0,
                used |-> sl + Len(InfinityText)]
        ELSE IF ni = 0 /\ nf = 0
          THEN [kind |-> "NaN", v |-> 0, used |-> 0]
        ELSE [kind |-> "finite", v |-> IF neg THEN 0 - mag ELSE mag,
              used |-> sl + ni + (IF dot THEN 1 + nf ELSE 0)]

parseFloat(text) == [kind |-> parseFloatFull(text).kind, v |-> parseFloatFull(text).v]

isNaN(x) == x.kind = "NaN"
isFinite(x) == x.kind = "finite"

----------------------------------------------------------------------------
\* The Metric Store (spec.md 3, 4.2, 5, 7).

EmptyDoc == [k \in {} |-> 0]
EmptyMetric == [entries |-> <<>>, currentValue |-> <<>>, lastUpdated |-> <<>>]

\* An Entry captured at clock reading t: the unit is copied from the catalog.
newEntry(key, v, t) ==
    [value |-> v, unit |-> configOf(key).unit,
     date |-> t \div TicksPerDay, time |-> t % TicksPerDay]

formatLastUpdated(e) == <<e.date, e.time>>

\* The entry list with e put in front.
prependEntry(entries, e) == <<e>> \o entries

\* The Metric with e as its newest entry, the derived fields recomputed.
withEntry(metric, e) ==
    [entries |-> prependEntry(metric.entries, e),
     currentValue |-> <<prependEntry(metric.entries, e)[1].value>>,
     lastUpdated |-> formatLastUpdated(prependEntry(metric.entries, e)[1])]

\* The document appendEntry writes: the Metric of `key` gets the entry (the
\* record is created for a first entry), every other Metric is kept.
appendEntry(doc, key, e) ==
    LET old == IF key \in DOMAIN doc THEN doc[key] ELSE EmptyMetric
    IN  [k \in DOMAIN doc \cup {key} |-> IF k = key THEN withEntry(old, e) ELSE doc[k]]

\* appendEntry's precondition: "" when it holds, else the error it fails with.
appendError(key, x) ==
    IF key \notin Keys THEN "ValidationError"
    ELSE IF ~isFinite(x) THEN "InvalidValueError"
    ELSE ""

\* The snapshot the store works from: the resident one, else the persisted one.
snapshot == IF resident # <<>> THEN resident[1] ELSE persisted

\* loadOne(key): loadAll()[key], absent as <<>>.
loadOne(doc, key) == IF key \in DOMAIN doc THEN <<doc[key]>> ELSE <<>>

\* A call of appendEntry that passes validation: the new document is computed
\* from the snapshot and its write is started (the call's one suspend point).
StoreAppendCall(caller, key, x) ==
    /\ appendError(key, x) = ""
    /\ now < MaxClock
    /\ Cardinality(inflight) < MaxInFlight
    /\ LET e == newEntry(key, x.v, now)
       IN  inflight' = inflight \cup
               {[caller |-> caller, key |-> key, entry |-> e,
                 doc |-> appendEntry(snapshot, key, e)]}
    /\ now' = now + 1
    /\ UNCHANGED <<persisted, resident, history>>

\* A call of appendEntry that violates the precondition fails at once.
StoreAppendRefuse(key, x) ==
    /\ appendError(key, x) # ""
    /\ UNCHANGED <<persisted, resident, inflight, now, history>>

\* The write of call c completes: a full overwrite of the persisted document.
StoreWriteOk(c) ==
    /\ c \in inflight
    /\ persisted' = c.doc
    /\ resident' = <<c.doc>>
    /\ inflight' = inflight \ {c}
    /\ history' = [history EXCEPT ![c.key] = <<c.entry>> \o @]
    /\ UNCHANGED now

\* StoreWriteFail leaving the document it could not confirm in storage.
StoreWriteFailPartial(c) ==
    /\ c \in inflight
    /\ inflight' = inflight \ {c}
    /\ persisted' = c.doc
    /\ UNCHANGED <<resident, history, now>>

\* The write of call c fails (StorageWriteError): prior state is left as it was.
StoreWriteFail(c) ==
    /\ c \in inflight
    /\ inflight' = inflight \ {c}
    /\ UNCHANGED <<persisted, resident, history, now>>

\* A Metric built from values given oldest first, all captured at reading 0.
RECURSIVE SeedMetric(_, _)
SeedMetric(key, values) ==
    IF values = <<>> THEN EmptyMetric
    ELSE withEntry(SeedMetric(key, SubSeq(values, 1, Len(values) - 1)),
                   newEntry(key, values[Len(values)], 0))

\* Documents an earlier session may have left in storage.
InitDocs ==
    { EmptyDoc,
      [k \in {"weight"} |-> EmptyMetric],
      [k \in Keys |-> IF k = "weight" THEN SeedMetric(k, <<70 * Scale>>) ELSE EmptyMetric],
      [k \in Keys |-> IF k = "weight" THEN SeedMetric(k, <<70 * Scale, 72 * Scale>>)
                      ELSE SeedMetric(k, <<0>>)] }

----------------------------------------------------------------------------
\* The screen: ClientMetricsScreen.

\* Texts the input field is given.
InputTexts ==
    { <<>>,                          \* nothing entered
      <<" ">>,                       \* white space
      <<"a", "b">>,                  \* not a number
      <<" ", "7", ".", "5", " ">>,   \* a number with white space around it
      <<"5", "k", "g">>,             \* a number followed by other text
      InfinityText }

NoAlert == <<>>
ErrorValue == <<"Error", "Please enter a valid value">>
ErrorNumber == <<"Error", "Please enter a valid number">>
ErrorAdd == <<"Error", "Failed to add metric entry">>
ErrorLoad == <<"Error", "Failed to load metrics data">>
SuccessAdded == <<"Success", "Metric entry added successfully">>

\* What a step that calls the store, or in which a call ends, leaves in `event`.
NoEvent == <<>>
CallEvent(key, x, text) ==
    <<[op |-> "call", key |-> key, value |-> x, text |-> text,
       error |-> appendError(key, x)]>>
DoneEvent(c, error) ==
    <<[op |-> "done", key |-> c.key, value |-> Finite(c.entry.value), text |-> <<>>,
       error |-> error]>>

\* DetailShown without the test of line 187 for a record in the snapshot.
DetailShownAnyKey ==
    /\ selectedMetric # Null
    /\ selectedMetric \in Keys

\* renderMetricDetail returns a view (lines 181-187): a metric is selected, the
\* catalog holds it and the displayed snapshot has a record for it.
DetailShown ==
    /\ selectedMetric # Null
    /\ selectedMetric \in Keys
    /\ selectedMetric \in DOMAIN metrics

\* What the user can touch: nothing while the loading view or an alert is up,
\* only the modal while it is visible.
ScreenActive == ~loading /\ alert = NoAlert /\ ~showAddModal
ModalActive == ~loading /\ alert = NoAlert /\ showAddModal

Init ==
    /\ persisted \in InitDocs
    /\ resident = <<>>
    /\ inflight = {}
    /\ reading = TRUE
    /\ metrics = EmptyDoc
    /\ selectedMetric = Null
    /\ showAddModal = FALSE
    /\ newValue = <<>>
    /\ loading = TRUE
    /\ alert = NoAlert
    /\ now = 0
    /\ history = [k \in Keys |-> <<>>]
    /\ initial = persisted
    /\ event = NoEvent

\* loadMetrics of the mount effect, getMetrics resolving (lines 72-73, 78).
LoadResolve ==
    /\ reading
    /\ reading' = FALSE
    /\ resident' = <<persisted>>
    /\ metrics' = persisted
    /\ loading' = FALSE
    /\ event' = NoEvent
    /\ UNCHANGED <<persisted, inflight, selectedMetric, showAddModal, newValue, alert,
                   now, history, initial>>

\* loadMetrics of the mount effect, getMetrics failing with StorageReadError
\* (lines 74-78).
LoadReject ==
    /\ reading
    /\ reading' = FALSE
    /\ alert' = ErrorLoad
    /\ loading' = FALSE
    /\ event' = NoEvent
    /\ UNCHANGED <<persisted, resident, inflight, metrics, selectedMetric, showAddModal,
                   newValue, now, history, initial>>

\* The user dismisses the alert on show.
DismissAlert ==
    /\ alert # NoAlert
    /\ alert' = NoAlert
    /\ event' = NoEvent
    /\ UNCHANGED <<storeVars, reading, metrics, selectedMetric, showAddModal, newValue,
                   loading, initial>>

\* A metric card is pressed (line 139).
handleMetricPress(metricKey) ==
    /\ ScreenActive
    /\ selectedMetric = Null
    /\ selectedMetric' = metricKey
    /\ event' = NoEvent
    /\ UNCHANGED <<storeVars, reading, metrics, showAddModal, newValue, loading, alert,
                   initial>>

\* The back control of the detail view (line 212).
BackPress ==
    /\ ScreenActive
    /\ DetailShown
    /\ selectedMetric' = Null
    /\ event' = NoEvent
    /\ UNCHANGED <<storeVars, reading, metrics, showAddModal, newValue, loading, alert,
                   initial>>

\* The add control of the detail view (line 219).
handleAddEntry ==
    /\ ScreenActive
    /\ DetailShown
    /\ showAddModal' = (IF selectedMetric = Null THEN showAddModal ELSE TRUE)
    /\ event' = NoEvent
    /\ UNCHANGED <<storeVars, reading, metrics, selectedMetric, newValue, loading, alert,
                   initial>>

\* The modal's close control and onRequestClose (lines 401, 405).
CloseModal ==
    /\ ModalActive
    /\ showAddModal' = FALSE
    /\ event' = NoEvent
    /\ UNCHANGED <<storeVars, reading, metrics, selectedMetric, newValue, loading, alert,
                   initial>>

\* onChangeText of the input (line 425), rendered when a metric is selected.
ChangeText(text) ==
    /\ ModalActive
    /\ selectedMetric # Null
    /\ newValue' = text
    /\ event' = NoEvent
    /\ UNCHANGED <<storeVars, reading, metrics, selectedMetric, showAddModal, loading,
                   alert, initial>>

\* handleSaveEntry up to its first await (lines 91-104): the Save control is
\* pressed.  A call that addMetricEntry refuses rejects at once and is caught
\* (lines 109-111).
handleSaveEntry ==
    /\ ModalActive
    /\ IF selectedMetric = Null \/ trim(newValue) = <<>>
         THEN /\ alert' = ErrorValue
              /\ event' = NoEvent
              /\ UNCHANGED storeVars
       ELSE IF isNaN(parseFloat(newValue))
         THEN /\ alert' = ErrorNumber
              /\ event' = NoEvent
              /\ UNCHANGED storeVars
       ELSE /\ event' = CallEvent(selectedMetric, parseFloat(newValue), newValue)
            /\ \/ /\ StoreAppendCall("screen", selectedMetric, parseFloat(newValue))
                  /\ UNCHANGED alert
               \/ /\ StoreAppendRefuse(selectedMetric, parseFloat(newValue))
                  /\ alert' = ErrorAdd
    /\ UNCHANGED <<reading, metrics, selectedMetric, showAddModal, newValue, loading,
                   initial>>

\* AddResolve without the reload of line 105.
AddResolveNoReload(c) ==
    /\ c.caller = "screen"
    /\ StoreWriteOk(c)
    /\ loading' = FALSE
    /\ showAddModal' = FALSE
    /\ newValue' = <<>>
    /\ alert' = SuccessAdded
    /\ event' = DoneEvent(c, "")
    /\ UNCHANGED <<reading, metrics, selectedMetric, initial>>

\* handleSaveEntry after addMetricEntry resolved (lines 105-108): loadMetrics
\* gets the resident snapshot, then the modal is closed and success reported.
AddResolve(c) ==
    /\ c.caller = "screen"
    /\ StoreWriteOk(c)
    /\ metrics' = resident'[1]
    /\ loading' = FALSE
    /\ showAddModal' = FALSE
    /\ newValue' = <<>>
    /\ alert' = SuccessAdded
    /\ event' = DoneEvent(c, "")
    /\ UNCHANGED <<reading, selectedMetric, initial>>

\* AddReject closing the modal and clearing the input as the success path does.
AddRejectClosing(c) ==
    /\ c.caller = "screen"
    /\ StoreWriteFail(c)
    /\ showAddModal' = FALSE
    /\ newValue' = <<>>
    /\ alert' = ErrorAdd
    /\ event' = DoneEvent(c, "StorageWriteError")
    /\ UNCHANGED <<reading, metrics, selectedMetric, loading, initial>>

\* handleSaveEntry after addMetricEntry rejected (lines 109-112).
AddReject(c) ==
    /\ c.caller = "screen"
    /\ StoreWriteFail(c)
    /\ alert' = ErrorAdd
    /\ event' = DoneEvent(c, "StorageWriteError")
    /\ UNCHANGED <<reading, metrics, selectedMetric, showAddModal, newValue, loading,
                   initial>>

Next ==
    \/ LoadResolve
    \/ LoadReject
    \/ DismissAlert
    \/ \E k \in Keys : handleMetricPress(k)
    \/ BackPress
    \/ handleAddEntry
    \/ CloseModal
    \/ \E t \in InputTexts : ChangeText(t)
    \/ handleSaveEntry
    \/ \E c \in inflight : AddResolve(c)
    \/ \E c \in inflight : AddReject(c)

Spec == Init /\ [][Next]_vars

----------------------------------------------------------------------------
\* What the screen derives from the snapshot for display.

ChartWindow == 10

Abs(x) == IF x < 0 THEN 0 - x ELSE x

\* getMetricChange (lines 115-126): <<>> for null.
getMetricChangeStrict(metric) ==
    IF Len(metric.entries) < 2 THEN <<>>
    ELSE LET change == metric.entries[1].value - metric.entries[2].value
         IN  <<[value |-> Abs(change), isPositive |-> change > 0]>>

getMetricChange(metric) ==
    IF Len(metric.entries) < 2 THEN <<>>
    ELSE LET latest == metric.entries[1].value
             previous == metric.entries[2].value
             change == latest - previous
         IN  <<[value |-> Abs(change), isPositive |-> change >= 0]>>

\* Array.prototype.slice(0, n), reverse and map(e => e.value).
slice(seq, n) == SubSeq(seq, 1, IF Len(seq) < n THEN Len(seq) ELSE n)
reverse(seq) == [i \in 1..Len(seq) |-> seq[Len(seq) + 1 - i]]
valuesOf(entries) == [i \in 1..Len(entries) |-> entries[i].value]

\* Math.max and Math.min of a non-empty list.
MathMax(values) ==
    CHOOSE x \in {values[i] : i \in 1..Len(values)} :
        \A j \in 1..Len(values) : values[j] <= x
MathMin(values) ==
    CHOOSE x \in {values[i] : i \in 1..Len(values)} :
        \A j \in 1..Len(values) : x <= values[j]

\* reduce((sum, e) => sum + e.value, 0)
RECURSIVE reduceSum(_)
reduceSum(values) == IF values = <<>> THEN 0 ELSE Head(values) + reduceSum(Tail(values))

\* (num / den).toFixed(1) as a count of tenths, num in units of 1/Scale: the
\* nearest tenth, a tie going away from zero.
toFixed1(num, den) ==
    LET q == den * Scale
        t == (2 * 10 * Abs(num) + q) \div (2 * q)
    IN  IF num < 0 THEN 0 - t ELSE t

\* The cells of the Statistics card (lines 253-290): <<>> is '--'.
statTotal(metric) == <<Len(metric.entries)>>

statHighestWindow(metric) ==
    IF Len(metric.entries) > 0
      THEN <<toFixed1(MathMax(valuesOf(slice(metric.entries, ChartWindow))), 1)>>
      ELSE <<>>

statHighest(metric) ==
    IF Len(metric.entries) > 0
      THEN <<toFixed1(MathMax(valuesOf(metric.entries)), 1)>>
      ELSE <<>>

statLowest(metric) ==
    IF Len(metric.entries) > 0
      THEN <<toFixed1(MathMin(valuesOf(metric.entries)), 1)>>
      ELSE <<>>

statAverageOrZero(metric) ==
    IF Len(metric.entries) > 0
      THEN <<toFixed1(reduceSum(valuesOf(metric.entries)), Len(metric.entries))>>
      ELSE <<0>>

statAverage(metric) ==
    IF Len(metric.entries) > 0
      THEN <<toFixed1(reduceSum(valuesOf(metric.entries)), Len(metric.entries))>>
      ELSE <<>>

\* chartData and the entries of historyData (lines 189-205).
chartData(metric) ==
    [i \in 1..Len(slice(metric.entries, ChartWindow)) |->
        [date |-> reverse(slice(metric.entries, ChartWindow))[i].date,
         value |-> reverse(slice(metric.entries, ChartWindow))[i].value]]

historyEntries(metric) ==
    [i \in 1..Len(slice(metric.entries, ChartWindow)) |->
        [date |-> metric.entries[i].date, time |-> metric.entries[i].time,
         value |-> <<metric.entries[i].value, metric.entries[i].unit>>]]

\* renderMetricDetail (lines 181-302): <<>> for null.
renderMetricDetail ==
    IF ~DetailShown THEN <<>>
    ELSE LET metric == metrics[selectedMetric]
         IN  <<[title |-> configOf(selectedMetric).name,
                currentValue |-> metric.currentValue,
                chartData |-> chartData(metric),
                chartShown |-> Len(chartData(metric)) > 1,
                totalEntries |-> statTotal(metric),
                highest |-> statHighest(metric),
                lowest |-> statLowest(metric),
                average |-> statAverage(metric),
                historyTotal |-> Len(metric.entries),
                historyEntries |-> historyEntries(metric)]>>

----------------------------------------------------------------------------
\* Claims checked under Spec.

entriesOf(doc, key) == IF key \in DOMAIN doc THEN doc[key].entries ELSE <<>>

\* C1: for every key whose persisted Metric is non-empty, entries[0] is the
\* entry most recently appended for that key and currentValue is its value.
C1_NewestEntryIsHead ==
    \A k \in DOMAIN persisted :
        persisted[k].entries # <<>> =>
            /\ persisted[k].currentValue = <<persisted[k].entries[1].value>>
            /\ history[k] # <<>> => persisted[k].entries[1] = history[k][1]

\* C2: the persisted entry list of a key is the entries appended to it, newest
\* first, in front of the list the key started with: n appends to an empty
\* metric give n entries in reverse insertion order, and nothing but prepending
\* ever happens to a list.
C2_ReverseInsertionOrder ==
    \A k \in Keys :
        history[k] # <<>> =>
            entriesOf(persisted, k) = history[k] \o entriesOf(initial, k)

\* C3: at most one addMetricEntry call started by handleSaveEntry is
\* outstanding at any time.
C3_SavesSerialized == Cardinality(inflight) <= 1

\* The text, white space around it aside, is a numeric literal as a whole.
FullyNumeric(text) ==
    /\ trim(text) # <<>>
    /\ parseFloatFull(text).used = Len(trim(text))

\* C5: every call handleSaveEntry makes to addMetricEntry names a catalog key
\* and passes a finite number that the whole entered text denotes.
C5_CallsMeetPrecondition ==
    (event # NoEvent /\ event[1].op = "call") =>
        /\ event[1].key \in Keys
        /\ isFinite(event[1].value)
        /\ FullyNumeric(event[1].text)

\* C10: a step in which an append to key A succeeds leaves the persisted
\* Metric of every other key as it was.
C10_Isolation ==
    [][\A a \in Keys :
         history'[a] # history[a] =>
             /\ DOMAIN persisted' \ {a} = DOMAIN persisted \ {a}
             /\ \A b \in DOMAIN persisted \ {a} : persisted'[b] = persisted[b]]_vars

----------------------------------------------------------------------------
\* SpecStore: the store called directly, by a caller that may pass any key and
\* any number (spec.md 4.2 and 6), the screen not mounted.

DirectKeys == Keys \cup {UnknownKey}
DirectValues ==
    { Finite(0), Finite(5 * Scale), NaN,
      [kind |-> "Infinity", v |-> 0], [kind |-> "-Infinity", v |-> 0] }

StoreInit ==
    /\ persisted \in InitDocs
    /\ resident = <<>>
    /\ inflight = {}
    /\ reading = FALSE
    /\ metrics = EmptyDoc
    /\ selectedMetric = Null
    /\ showAddModal = FALSE
    /\ newValue = <<>>
    /\ loading = TRUE
    /\ alert = NoAlert
    /\ now = 0
    /\ history = [k \in Keys |-> <<>>]
    /\ initial = persisted
    /\ event = NoEvent

\* loadAll(): the snapshot becomes resident.
DirectLoad ==
    /\ resident = <<>>
    /\ resident' = <<persisted>>
    /\ event' = NoEvent
    /\ UNCHANGED <<persisted, inflight, now, history, screenVars, initial>>

\* appendEntry(key, x) is called.
DirectAppend(key, x) ==
    /\ event' = CallEvent(key, x, <<>>)
    /\ \/ StoreAppendCall("direct", key, x)
       \/ StoreAppendRefuse(key, x)
    /\ UNCHANGED <<screenVars, initial>>

DirectWriteOk(c) ==
    /\ c.caller = "direct"
    /\ StoreWriteOk(c)
    /\ event' = DoneEvent(c, "")
    /\ UNCHANGED <<screenVars, initial>>

DirectWriteFail(c) ==
    /\ c.caller = "direct"
    /\ StoreWriteFail(c)
    /\ event' = DoneEvent(c, "StorageWriteError")
    /\ UNCHANGED <<screenVars, initial>>

StoreNext ==
    \/ DirectLoad
    \/ \E k \in DirectKeys, x \in DirectValues : DirectAppend(k, x)
    \/ \E c \in inflight : DirectWriteOk(c)
    \/ \E c \in inflight : DirectWriteFail(c)

SpecStore == StoreInit /\ [][StoreNext]_vars

----------------------------------------------------------------------------
\* SpecDetail: the detail view of one metric over every entry list of up to
\* MaxDetailEntries values, each list grown by saves that run to completion.

DetailValues ==
    { 68 * Scale, 70 * Scale + (4 * Scale) \div 100, 72 * Scale + Scale \div 2 }

DetailInit ==
    /\ persisted = [k \in {"weight"} |-> EmptyMetric]
    /\ resident = <<persisted>>
    /\ inflight = {}
    /\ reading = FALSE
    /\ metrics = persisted
    /\ selectedMetric = "weight"
    /\ showAddModal = FALSE
    /\ newValue = <<>>
    /\ loading = FALSE
    /\ alert = NoAlert
    /\ now = 0
    /\ history = [k \in Keys |-> <<>>]
    /\ initial = persisted
    /\ event = NoEvent

\* A save of value v for the selected metric, from the call to the reload
\* (lines 104-105), no other step in between.
DetailSave(v) ==
    /\ Len(entriesOf(snapshot, selectedMetric)) < MaxDetailEntries
    /\ LET e == newEntry(selectedMetric, v, now)
           doc == appendEntry(snapshot, selectedMetric, e)
       IN  /\ persisted' = doc
           /\ resident' = <<doc>>
           /\ metrics' = doc
           /\ history' = [history EXCEPT ![selectedMetric] = <<e>> \o @]
    /\ now' = now + 1
    /\ UNCHANGED <<inflight, reading, selectedMetric, showAddModal, newValue, loading,
                   alert, initial, event>>

DetailNext == \E v \in DetailValues : DetailSave(v)

SpecDetail == DetailInit /\ [][DetailNext]_vars

shownEntries == entriesOf(metrics, selectedMetric)

\* C6: the trend of the shown Metric is absent below two entries; otherwise its
\* magnitude is |entries[0].value - entries[1].value|, it is positive exactly
\* when entries[0].value >= entries[1].value (a tie is positive), and the
\* entries past index 1 have no part in it.
C6_Trend ==
    DetailShown =>
        LET metric == metrics[selectedMetric]
            es == metric.entries
            ch == getMetricChange(metric)
        IN  /\ Len(es) < 2 => ch = <<>>
            /\ Len(es) >= 2 =>
                  /\ ch # <<>>
                  /\ ch[1].value >= 0
                  /\ ch[1].value \in {es[1].value - es[2].value, es[2].value - es[1].value}
                  /\ ch[1].isPositive = (es[1].value >= es[2].value)
                  /\ ch = getMetricChange([metric EXCEPT !.entries = SubSeq(es, 1, 2)])

\* C6 witness: a Metric whose two newest entries tie and whose third differs.
C6_Witness ==
    /\ DetailShown
    /\ Len(shownEntries) >= 3
    /\ shownEntries[1].value = shownEntries[2].value
    /\ shownEntries[3].value # shownEntries[1].value

\* t tenths is num / (den * Scale) rounded to one decimal place.
RoundsTo(t, num, den) == 2 * Abs(t * den * Scale - 10 * num) <= den * Scale

RECURSIVE TotalValue(_)
TotalValue(es) ==
    IF es = <<>> THEN 0 ELSE TotalValue(SubSeq(es, 1, Len(es) - 1)) + es[Len(es)].value

\* C7: for a non-empty entry list the Statistics card shows the number of all
\* entries, the largest and the smallest value of all entries and the mean of
\* all entries, each rounded once to one decimal place, while the chart and
\* the history list show at most ChartWindow entries.
C7_StatisticsOverAllEntries ==
    (DetailShown /\ shownEntries # <<>>) =>
        LET es == shownEntries
            n == Len(es)
            d == renderMetricDetail[1]
        IN  /\ d.totalEntries = <<n>>
            /\ d.highest # <<>>
            /\ \E i \in 1..n :
                  /\ \A j \in 1..n : es[j].value <= es[i].value
                  /\ RoundsTo(d.highest[1], es[i].value, 1)
            /\ d.lowest # <<>>
            /\ \E i \in 1..n :
                  /\ \A j \in 1..n : es[i].value <= es[j].value
                  /\ RoundsTo(d.lowest[1], es[i].value, 1)
            /\ d.average # <<>>
            /\ RoundsTo(d.average[1], TotalValue(es), n)
            /\ Len(d.chartData) = (IF n < ChartWindow THEN n ELSE ChartWindow)
            /\ Len(d.historyEntries) = Len(d.chartData)

\* C7 witness: more entries than the chart shows, the largest value among
\* those the chart leaves out.
C7_Witness ==
    /\ DetailShown
    /\ Len(shownEntries) > ChartWindow
    /\ \A i \in 1..ChartWindow : shownEntries[i].value < shownEntries[ChartWindow + 1].value

----------------------------------------------------------------------------
\* The current value on a metric card and in the hint of the Add Entry modal.

\* `currentValue || '--'` (lines 152, 437): the right operand is taken for
\* every falsy left operand, undefined and the number 0 alike.  <<>> is '--'.
orPlaceholder(currentValue) ==
    IF currentValue = <<>> THEN <<>>
    ELSE IF currentValue[1] = 0 THEN <<>>
    ELSE currentValue

\* renderMetricCard (lines 128-179): what the card of config shows.
renderMetricCard(config) ==
    LET metric == loadOne(metrics, config.key)
    IN  [name |-> config.name,
         currentValue |-> IF metric = <<>> THEN <<>>
                          ELSE orPlaceholder(metric[1].currentValue),
         change |-> IF metric = <<>> THEN <<>> ELSE getMetricChange(metric[1])]

\* The "Current:" hint of the modal (lines 436-438), rendered when a metric is
\* selected.
inputHint ==
    LET metric == loadOne(metrics, selectedMetric)
    IN  IF metric = <<>> THEN <<>> ELSE orPlaceholder(metric[1].currentValue)

\* The metric list is on show (line 328).
ListShown == ~loading /\ selectedMetric = Null

\* The hint is on show (lines 397-399, 415).
HintShown == ~loading /\ showAddModal /\ selectedMetric # Null

\* The snapshot has no current value for key: no record, or a record with none.
NoCurrentValue(key) ==
    \/ key \notin DOMAIN metrics
    \/ metrics[key].currentValue = <<>>

\* What a display that keeps zero apart from "no data" shows for key.
ExpectedCurrentValue(key) ==
    IF NoCurrentValue(key) THEN <<>> ELSE metrics[key].currentValue

\* C11: the metric card and the hint of the modal show '--' exactly when the
\* metric has no record or no current value, and show the value otherwise, a
\* newest entry of value 0 as 0.
C11_ZeroIsNotNoData ==
    /\ ListShown =>
           \A k \in Keys :
               renderMetricCard(configOf(k)).currentValue = ExpectedCurrentValue(k)
    /\ HintShown => inputHint = ExpectedCurrentValue(selectedMetric)


----------------------------------------------------------------------------
\* The Add Entry modal and the keys it can be opened for.

\* The selected key has no record in the displayed snapshot: renderMetricDetail
\* returns null (line 187) under the "Metric Details" header.
SelectedAbsent ==
    /\ ~loading
    /\ selectedMetric # Null
    /\ selectedMetric \notin DOMAIN metrics

\* C12: the modal is visible only for a selected key that has a record in the
\* displayed snapshot, and handleSaveEntry calls addMetricEntry only for such a
\* key; a key absent from the loaded snapshot stays absent, so no call is ever
\* made for it; and once such a key is selected, no step opens the modal or
\* changes the selection.
C12_ModalOnlyForRecordedKey ==
    [][/\ showAddModal' => (selectedMetric' # Null /\ selectedMetric' \in DOMAIN metrics')
       /\ (event' # NoEvent /\ event'[1].op = "call") =>
              (event'[1].key = selectedMetric /\ event'[1].key \in DOMAIN metrics)
       /\ \A k \in Keys : (~loading /\ k \notin DOMAIN metrics) => k \notin DOMAIN metrics'
       /\ SelectedAbsent => (selectedMetric' = selectedMetric /\ ~showAddModal')]_vars

\* C12 witness: a key without a record is selected, in a session in which an
\* entry was added through the modal for a key that has one.
C12_Witness ==
    /\ SelectedAbsent
    /\ alert = NoAlert
    /\ \E k \in DOMAIN metrics : history[k] # <<>>


----------------------------------------------------------------------------
\* The order of effects in handleSaveEntry.

\* The step ends an addMetricEntry call of handleSaveEntry with success.
SaveSucceeds == event' # NoEvent /\ event'[1].op = "done" /\ event'[1].error = ""

\* The step ends an addMetricEntry call of handleSaveEntry with a failure,
\* refused at the call or rejected by the write.
SaveFails == event' # NoEvent /\ event'[1].error # ""

\* The displayed snapshot of the next state has the value just saved at index
\* 0 of key.
SavedValueIsHead(key) ==
    /\ entriesOf(metrics', key) # <<>>
    /\ Finite(entriesOf(metrics', key)[1].value) = event'[1].value

====
